---- MODULE Spec2Model ----
(***************************************************************************)
(* Model of the pico-303 input subsystem (firmware/pico-303/UIManager.cpp): *)
(* the rotary-encoder interrupt handler, the polled update() with its      *)
(* interrupt-protected drain of encoderDelta, the button debouncer, the    *)
(* Menu/Edit state machine and the parameter table.                        *)
(*                                                                         *)
(* Execution contexts: the interrupt handler runs to completion in the     *)
(* interrupt context; update() runs in the polling context and can be      *)
(* interrupted by the handler anywhere outside its noInterrupts() section. *)
(***************************************************************************)
EXTENDS Integers, Sequences, FiniteSets, TLC

----------------------------------------------------------------------------
(* Bounds of the exploration *)

\* largest clock value a Tick may reach
MaxClock == 303
\* largest number of detents the interrupt handler may add to encoderDelta
MaxAdds == 2
\* amounts by which the millisecond clock advances between events: on either
\* side of the debounce window where the button is looked at alone
TickSteps == {100, 101}
\* and past the window where the whole program runs
LoopTickSteps == {101}
\* cc numbers and values an external source injects
InjectCCs == {77, 1}
InjectValues == {4, 5}
\* levels both encoder lines may rest at when begin() reads them (a 2-step
\* encoder rests at 00 or 11)
RestLevels == {0, 1}
\* pending deltas a long-undrained encoderDelta has reached (the ends of int16_t)
WideDeltas == {-32768, 32767}

----------------------------------------------------------------------------
(* Machine integers *)

Pow8 == 2 ^ 8
Pow16 == 2 ^ 16

\* conversion to uint8_t
U8(x) == x % Pow8
\* conversion to int16_t (two's complement)
I16(x) == ((x + 32768) % Pow16) - 32768
\* conversion to int8_t
I8(x) == ((x + 128) % Pow8) - 128

\* A uint32_t is kept as two 16-bit halves, value = hi * 2^16 + lo
U32(hi, lo) == [hi |-> hi, lo |-> lo]
\* uint32_t addition of a small amount d < 2^16
AddU32(t, d) == U32((t.hi + ((t.lo + d) \div Pow16)) % Pow16, (t.lo + d) % Pow16)
\* a subtraction that stops at 0 instead of wrapping
SubU32Saturating(a, b) ==
  IF a.hi < b.hi \/ (a.hi = b.hi /\ a.lo < b.lo) THEN U32(0, 0)
  ELSE U32((a.hi - b.hi - (IF a.lo < b.lo THEN 1 ELSE 0)) % Pow16,
           (a.lo - b.lo) % Pow16)
\* uint32_t subtraction a - b, wrapping modulo 2^32
SubU32(a, b) ==
  U32((a.hi - b.hi - (IF a.lo < b.lo THEN 1 ELSE 0)) % Pow16, (a.lo - b.lo) % Pow16)
\* comparisons of a uint32_t with a small constant n < 2^16
LtU32(t, n) == t.hi = 0 /\ t.lo < n
GtU32(t, n) == t.hi > 0 \/ t.lo > n

Abs(x) == IF x < 0 THEN -x ELSE x

----------------------------------------------------------------------------
(* Constants of the program *)

UI_MENU == "UI_MENU"
UI_EDIT == "UI_EDIT"
LOW == FALSE
HIGH == TRUE

kQuadratureTable ==
  << << 0,  1, -1,  0>>,
     <<-1,  0,  0,  1>>,
     << 1,  0,  0, -1>>,
     << 0, -1,  1,  0>> >>

P(cc, value, minVal, maxVal) ==
  [cc |-> cc, value |-> value, minVal |-> minVal, maxVal |-> maxVal]

ParameterTable ==
  << P(7, 76, 0, 127),  P(18, 0, 0, 127),  P(16, 64, 0, 127), P(74, 64, 0, 127),
     P(71, 0, 0, 127),  P(17, 64, 0, 127), P(75, 64, 0, 127), P(15, 64, 0, 127),
     P(14, 0, 0, 127),  P(80, 0, 0, 127),  P(77, 0, 0, 4),    P(78, 0, 0, 127),
     P(79, 0, 0, 127),  P(81, 32, 0, 127), P(82, 64, 0, 127), P(86, 32, 0, 127),
     P(91, 32, 0, 127), P(92, 32, 0, 127), P(93, 0, 0, 2),    P(94, 0, 0, 2),
     P(83, 38, 0, 127), P(100, 64, 0, 127) >>

paramCount == Len(ParameterTable)

Indices == 0 .. (paramCount - 1)

----------------------------------------------------------------------------
VARIABLES
  attached,           \* begin() has attached the interrupts (lines 79-80)
  begun,              \* begin() has returned
  clock,              \* millis(): the free-running uint32 millisecond clock
  state,              \* UIManager::state
  currentParamIndex,  \* UIManager::currentParamIndex
  parameters,         \* UIManager::parameters, indexed 0 .. paramCount-1
  lastButtonState,    \* UIManager::lastButtonState
  lastButtonTime,     \* UIManager::lastButtonTime
  parameterCallback,  \* TRUE when a callback is registered, FALSE for nullptr
  lastEncoderState,   \* UIManager::lastEncoderState
  lastEncoderTime,    \* UIManager::lastEncoderTime
  encoderDelta,       \* UIManager::encoderDelta (int16_t)
  stepAccumulator,    \* the static int8_t of handleEncoderInterrupt
  inUpdate,           \* update() is past interrupts() (line 94) and has not returned
  delta,              \* the local int16_t delta of update(), 0 outside update()
  \* observations of the run (not program state)
  polled,             \* TRUE when the latest step was the return of an update()
  drained,            \* the delta that update() had drained
  ret,                \* the value that update() returned
  pressed,            \* what readButton() returned in that update()
  rawSeen,            \* the raw button level readButton() read in that update()
  cbLog,              \* the callback invocations <<cc, value>> of the latest step
  pressOdd,           \* TRUE when an odd number of press events was emitted so far
  nAdds,              \* number of additions made to encoderDelta by the handler
  owed,               \* sum of the direction*multiplier amounts added so far
                      \* minus sum of the values the drains returned so far
  sinceDrain,         \* sum of the amounts added since the latest drain
  track               \* further observations, kept only by the tracked steps
                      \* (TrackedInterrupt, TrackedRest, GetParameter)

vars == << attached, begun, clock, state, currentParamIndex, parameters, lastButtonState,
           lastButtonTime, parameterCallback, lastEncoderState, lastEncoderTime,
           encoderDelta, stepAccumulator, inUpdate, delta,
           polled, drained, ret, pressed, rawSeen, cbLog, pressOdd, nAdds, owed, sinceDrain,
           track >>

uiVars == << state, currentParamIndex, parameters, lastButtonState, lastButtonTime >>
encVars == << lastEncoderState, lastEncoderTime, stepAccumulator >>
drainObs == << owed, sinceDrain >>
updVars == << inUpdate, delta >>

\* nothing tracked yet
Track0 ==
  [fired |-> FALSE,   \* the handler has run, and no handler execution since
                      \* was left untracked
   prevCode |-> 0,    \* lastEncoderState before the latest handler execution
   quarter |-> 0,     \* the rawDelta that execution looked up
   streak |-> 0,      \* consecutive valid same-direction quarter steps counted
                      \* from a zeroed accumulator, signed by their direction
   streakAdds |-> 0,  \* detents emitted during that streak
   hadCommit |-> FALSE,\* a button transition was committed
   commitAt |-> 0,    \* clock.lo at the latest committed transition
   hadPress |-> FALSE,\* a press event was emitted
   pressAt |-> 0,     \* clock.lo at the latest press event
   releases |-> 0,    \* releases committed since the latest press event
   got |-> << >>]     \* <<index, parameter returned>> of the latest getParameter()

\* a step that is no return of update() leaves nothing of a poll to observe
NoReturn ==
  /\ polled' = FALSE
  /\ drained' = 0
  /\ ret' = FALSE
  /\ pressed' = FALSE
  /\ rawSeen' = HIGH
  /\ UNCHANGED pressOdd

\* a step that is no part of update() leaves update() where it is as well
NoPoll == NoReturn /\ UNCHANGED updVars

----------------------------------------------------------------------------
(* UIManager::UIManager(), the static member definitions and the parameter
   table: the state before begin() *)
Init ==
  /\ attached = FALSE
  /\ begun = FALSE
  /\ clock = U32(0, 0)
  /\ state = UI_MENU
  /\ currentParamIndex = 0
  /\ parameters = [i \in Indices |-> ParameterTable[i + 1]]
  /\ lastButtonState = FALSE
  /\ lastButtonTime = U32(0, 0)
  /\ parameterCallback = FALSE
  /\ lastEncoderState = 0
  /\ lastEncoderTime = U32(0, 0)
  /\ encoderDelta = 0
  /\ stepAccumulator = 0
  /\ inUpdate = FALSE
  /\ delta = 0
  /\ drained = 0
  /\ polled = FALSE
  /\ ret = FALSE
  /\ pressed = FALSE
  /\ rawSeen = HIGH
  /\ cbLog = << >>
  /\ pressOdd = FALSE
  /\ nAdds = 0
  /\ owed = 0
  /\ sinceDrain = 0
  /\ track = Track0

(* The millisecond clock advances by d *)
Tick(d) ==
  /\ attached
  /\ clock.hi = 0
  /\ clock.lo + d <= MaxClock
  /\ clock' = AddU32(clock, d)
  /\ NoPoll
  /\ cbLog' = << >>
  /\ UNCHANGED << attached, begun, uiVars, parameterCallback, encVars, encoderDelta,
                  nAdds, drainObs, track >>

(* UIManager::begin, lines 62-80, with encoder pin levels a, b: the first
   decoded state, the first detent stamp, and the interrupts attached. From
   here on the handler can run while begin() goes on. *)
BeginEncoder(a, b) ==
  /\ ~attached
  /\ attached' = TRUE
  /\ lastEncoderState' = a * 2 + b
  /\ lastEncoderTime' = clock
  /\ NoPoll
  /\ cbLog' = << >>
  /\ UNCHANGED << begun, clock, uiVars, parameterCallback, encoderDelta,
                  stepAccumulator, nAdds, drainObs, track >>

(* UIManager::begin, lines 82-84, with button level sw: the first stable level
   and its stamp, from a second reading of millis(), and the return *)
BeginButton(sw) ==
  /\ attached
  /\ ~begun
  /\ begun' = TRUE
  /\ lastButtonState' = sw
  /\ lastButtonTime' = clock
  /\ NoPoll
  /\ cbLog' = << >>
  /\ UNCHANGED << attached, clock, state, currentParamIndex, parameters,
                  parameterCallback, encVars, encoderDelta, nAdds, drainObs,
                  track >>

(* UIManager::setParameterCallback *)
SetParameterCallback(cb) ==
  /\ ~attached
  /\ parameterCallback' = cb
  /\ NoPoll
  /\ cbLog' = << >>
  /\ UNCHANGED << attached, begun, clock, uiVars, encVars, encoderDelta, nAdds, drainObs,
                  track >>

----------------------------------------------------------------------------
(* Interrupt context *)

\* the bands with their upper ends included
calculateAccelerationInclusive(deltaTime) ==
  IF LtU32(deltaTime, 16) THEN 4
  ELSE IF LtU32(deltaTime, 31) THEN 2
  ELSE 1

calculateAcceleration(deltaTime) ==
  IF LtU32(deltaTime, 15) THEN 4
  ELSE IF LtU32(deltaTime, 30) THEN 2
  ELSE 1

\* the table with a change of both bits taken for two quarter steps
RawDeltaDoubleStep(last, cur) ==
  IF last + cur = 3 THEN 2 ELSE kQuadratureTable[last + 1][cur + 1]

\* the table read by column then row
RawDeltaTransposed(last, cur) == kQuadratureTable[cur + 1][last + 1]

\* the quadrature table lookup of handleEncoderInterrupt
RawDelta(last, cur) == kQuadratureTable[last + 1][cur + 1]

\* the accumulator after adding a quarter step, before the threshold test
Accumulate(acc, rawDelta) == I8(acc + rawDelta)

\* a threshold of one quarter step
EmitsAtOne(acc) == Abs(acc) >= 1

\* a threshold of four quarter steps
EmitsAtFour(acc) == Abs(acc) >= 4

\* the threshold test: a detent is emitted
Emits(acc) == Abs(acc) >= 2

Direction(acc) == IF acc > 0 THEN 1 ELSE -1

\* encoderDelta += direction * multiplier
AddDelta(pending, amount) == I16(pending + amount)

(* UIManager::handleEncoderInterrupt reading pin levels a, b: what it does to
   the program *)
InterruptStep(a, b) ==
  LET currentState == a * 2 + b
      rawDelta == RawDelta(lastEncoderState, currentState)
      acc == Accumulate(stepAccumulator, rawDelta)
      emit == rawDelta # 0 /\ Emits(acc)
      now == clock
      deltaTime == SubU32(now, lastEncoderTime)
      amount == Direction(acc) * calculateAcceleration(deltaTime)
  IN  /\ attached
      /\ nAdds < MaxAdds
      /\ lastEncoderState' = currentState
      /\ stepAccumulator' = IF rawDelta = 0 THEN stepAccumulator
                            ELSE IF emit THEN 0 ELSE acc
      /\ lastEncoderTime' = IF emit THEN now ELSE lastEncoderTime
      /\ encoderDelta' = IF emit THEN AddDelta(encoderDelta, amount) ELSE encoderDelta
      /\ nAdds' = IF emit THEN nAdds + 1 ELSE nAdds
      /\ owed' = IF emit THEN owed + amount ELSE owed
      /\ sinceDrain' = IF emit THEN sinceDrain + amount ELSE sinceDrain
      /\ NoPoll
      /\ cbLog' = << >>
      /\ UNCHANGED << attached, begun, clock, uiVars, parameterCallback >>

(* UIManager::handleEncoderInterrupt reading pin levels a, b *)
HandleEncoderInterrupt(a, b) == InterruptStep(a, b) /\ UNCHANGED track

----------------------------------------------------------------------------
(* Polling context *)

\* a MenuIndex that lost its wrap of negative indices
MenuIndexNoLowerWrap(index, d) ==
  LET newIndex == I16(index + d)
  IN  U8(IF newIndex >= paramCount THEN 0 ELSE newIndex)

\* update(), Menu branch: the index after a movement of d
MenuIndex(index, d) ==
  LET newIndex == I16(index + d)
  IN  U8(IF newIndex < 0 THEN paramCount - 1
         ELSE IF newIndex >= paramCount THEN 0
         ELSE newIndex)

\* update(), Edit branch: the value of param after a movement of d
EditValue(param, d) ==
  LET newValue == I16(param.value + d)
  IN  U8(IF newValue < param.minVal THEN param.minVal
         ELSE IF newValue > param.maxVal THEN param.maxVal
         ELSE newValue)

\* update(), Edit branch: the callback invocations for a movement that took
\* param from its old value to newValue
EditCallbacks(callback, param, newValue) ==
  IF callback THEN << <<param.cc, newValue>> >> ELSE << >>

\* update(): needsRedraw after the movement part
MoveRedraw(mode, param, d) == d # 0

\* a Toggle that only ever enters Edit
ToggleOneWay(mode) == UI_EDIT

\* update(): the mode after a press event
Toggle(mode) == IF mode = UI_MENU THEN UI_EDIT ELSE UI_MENU

\* a movement applied after the press was handled, in the toggled mode
MoveModeAfterPress(mode, event) == IF event THEN Toggle(mode) ELSE mode

\* update(): the mode the movement is applied in. The movement part runs before
\* readButton(), so it is the mode held when the poll starts
MoveMode(mode, event) == mode

\* an edit that always goes to parameter 0
EditSlotFirst(index) == 0

\* update(): the index of the parameter the Edit branch writes
EditSlot(index) == index

\* a readButton whose debounce test is >= 100 instead of > 100
readButtonInclusive(currentState, now, stable, stamp) ==
  IF currentState # stable /\ GtU32(SubU32(now, stamp), 99)
  THEN [event |-> (currentState = LOW), lastButtonState |-> currentState,
        lastButtonTime |-> now]
  ELSE [event |-> FALSE, lastButtonState |-> stable, lastButtonTime |-> stamp]

\* a readButton that does not stamp the time of a committed release
readButtonNoReleaseStamp(currentState, now, stable, stamp) ==
  IF currentState # stable /\ GtU32(SubU32(now, stamp), 100)
  THEN [event |-> (currentState = LOW), lastButtonState |-> currentState,
        lastButtonTime |-> IF currentState = LOW THEN now ELSE stamp]
  ELSE [event |-> FALSE, lastButtonState |-> stable, lastButtonTime |-> stamp]

\* readButton(): the event and the debounce state for raw level currentState
\* at time now
readButton(currentState, now, stable, stamp) ==
  IF currentState = LOW /\ stable = HIGH
  THEN IF GtU32(SubU32(now, stamp), 100)
       THEN [event |-> TRUE, lastButtonState |-> currentState, lastButtonTime |-> now]
       ELSE [event |-> FALSE, lastButtonState |-> stable, lastButtonTime |-> stamp]
  ELSE IF currentState = HIGH /\ stable = LOW
  THEN IF GtU32(SubU32(now, stamp), 100)
       THEN [event |-> FALSE, lastButtonState |-> currentState, lastButtonTime |-> now]
       ELSE [event |-> FALSE, lastButtonState |-> stable, lastButtonTime |-> stamp]
  ELSE [event |-> FALSE, lastButtonState |-> stable, lastButtonTime |-> stamp]

\* update(), lines 91-94: the value the drain returns and what it leaves pending
DrainValue(pending) == pending
DrainRest(pending) == 0

(* UIManager::update, lines 89-94: with interrupts disabled, encoderDelta is
   read into the local delta and zeroed. From interrupts() on the handler can
   run again while update() goes on. *)
UpdateDrain ==
  /\ begun
  /\ ~inUpdate
  /\ inUpdate' = TRUE
  /\ delta' = DrainValue(encoderDelta)
  /\ encoderDelta' = DrainRest(encoderDelta)
  /\ owed' = owed - delta'
  /\ sinceDrain' = 0
  /\ NoReturn
  /\ cbLog' = << >>
  /\ UNCHANGED << attached, begun, clock, uiVars, parameterCallback, encVars, nAdds, track >>

(* UIManager::update, lines 96-145, with sw the raw level read by readButton():
   the movement, the callback, readButton() and the toggle, up to the return.
   None of it reads or writes what the handler touches, and only readButton()
   reads the clock, so handler executions and clock ticks during these lines
   are the same as before them (after UpdateDrain) or after them. *)
UpdateRestStep(sw) ==
  LET slot == EditSlot(currentParamIndex)
      param == parameters[slot]
      moved == delta # 0
      newValue == EditValue(param, delta)
      b == readButton(sw, clock, lastButtonState, lastButtonTime)
      mode == MoveMode(state, b.event)
  IN  /\ inUpdate
      /\ inUpdate' = FALSE
      /\ delta' = 0
      /\ polled' = TRUE
      /\ UNCHANGED << attached, begun, clock, parameterCallback, encVars, encoderDelta,
                      nAdds, drainObs >>
      /\ drained' = delta
      /\ currentParamIndex' = IF moved /\ mode = UI_MENU
                              THEN MenuIndex(currentParamIndex, delta)
                              ELSE currentParamIndex
      /\ parameters' = IF moved /\ mode = UI_EDIT
                       THEN [parameters EXCEPT ![slot].value = newValue]
                       ELSE parameters
      /\ cbLog' = IF moved /\ mode = UI_EDIT
                  THEN EditCallbacks(parameterCallback, param, newValue)
                  ELSE << >>
      /\ lastButtonState' = b.lastButtonState
      /\ lastButtonTime' = b.lastButtonTime
      /\ state' = IF b.event THEN Toggle(state) ELSE state
      /\ pressed' = b.event
      /\ rawSeen' = sw
      /\ pressOdd' = IF b.event THEN ~pressOdd ELSE pressOdd
      /\ ret' = (MoveRedraw(state, param, delta) \/ b.event)

(* UIManager::update, lines 96-145 *)
UpdateRest(sw) == UpdateRestStep(sw) /\ UNCHANGED track

\* updateParameterValue(): the index of the first parameter whose cc matches,
\* paramCount when there is none
FindByCC(params, cc) ==
  LET hits == {i \in Indices : params[i].cc = cc}
  IN  IF hits = {} THEN paramCount
      ELSE CHOOSE i \in hits : \A j \in hits : i <= j

\* updateParameterValue(): the table after the injection
InjectedTable(params, cc, value) ==
  LET i == FindByCC(params, cc)
  IN  IF i < paramCount THEN [params EXCEPT ![i].value = value] ELSE params

\* an updateParameterValue that notifies the registered callback
InjectCallbacksNotify(callback, cc, value) ==
  IF callback THEN << <<cc, value>> >> ELSE << >>

\* updateParameterValue(): the callback invocations it makes (none)
InjectCallbacks(callback, cc, value) == << >>

(* UIManager::updateParameterValue, called from the thread that calls begin()
   and update(), so never while one of them runs *)
UpdateParameterValue(cc, value) ==
  /\ attached = begun
  /\ ~inUpdate
  /\ NoPoll
  /\ UNCHANGED << attached, begun, clock, state, currentParamIndex, lastButtonState,
                  lastButtonTime, parameterCallback, encVars, encoderDelta,
                  nAdds, drainObs, track >>
  /\ cbLog' = InjectCallbacks(parameterCallback, cc, value)
  /\ parameters' = InjectedTable(parameters, cc, value)

\* an out-of-range index taken to the last parameter
GetSlotClamped(index) == IF index >= paramCount THEN paramCount - 1 ELSE index

\* the index getParameter() reads at
GetSlot(index) == IF index >= paramCount THEN 0 ELSE index

(* UIManager::getParameter(index), a const member: the reference it returns is
   observed as the parameter's record *)
GetParameter(index) ==
  /\ attached = begun
  /\ ~inUpdate
  /\ NoPoll
  /\ cbLog' = << >>
  /\ UNCHANGED << attached, begun, clock, uiVars, parameterCallback, encVars, encoderDelta,
                  nAdds, drainObs >>
  /\ track' = [track EXCEPT !.got = << index, parameters[GetSlot(index)] >>]

----------------------------------------------------------------------------
Next ==
  \/ \E d \in LoopTickSteps : Tick(d)
  \/ \E a \in RestLevels : BeginEncoder(a, a)
  \/ \E sw \in BOOLEAN : BeginButton(sw)
  \/ \E cb \in BOOLEAN : SetParameterCallback(cb)
  \/ \E a \in 0 .. 1, b \in 0 .. 1 : HandleEncoderInterrupt(a, b)
  \/ UpdateDrain
  \/ \E sw \in BOOLEAN : UpdateRest(sw)
  \/ \E cc \in InjectCCs, value \in InjectValues : UpdateParameterValue(cc, value)

Spec == Init /\ [][Next]_vars

(* The program some time after the press that entered Edit mode on the first
   parameter (press committed at 101 ms, button still held), the polling loop
   having stalled while the encoder kept turning: encoderDelta, an int16_t the
   handler only ever adds to, has reached an end of its range. *)
InitWide ==
  /\ attached = TRUE
  /\ begun = TRUE
  /\ clock = U32(0, 202)
  /\ state = UI_EDIT
  /\ currentParamIndex = 0
  /\ parameters = [i \in Indices |-> ParameterTable[i + 1]]
  /\ lastButtonState = LOW
  /\ lastButtonTime = U32(0, 101)
  /\ parameterCallback \in BOOLEAN
  /\ lastEncoderState \in {0, 3}
  /\ lastEncoderTime = U32(0, 202)
  /\ encoderDelta \in WideDeltas
  /\ stepAccumulator = 0
  /\ inUpdate = FALSE
  /\ delta = 0
  /\ polled = FALSE
  /\ drained = 0
  /\ ret = FALSE
  /\ pressed = FALSE
  /\ rawSeen = HIGH
  /\ cbLog = << >>
  /\ pressOdd = TRUE
  /\ nAdds = 0
  /\ owed = encoderDelta
  /\ sinceDrain = encoderDelta
  /\ track = Track0

NextWide ==
  \/ \E d \in TickSteps : Tick(d)
  \/ \E a \in 0 .. 1, b \in 0 .. 1 : HandleEncoderInterrupt(a, b)
  \/ UpdateDrain
  \/ \E sw \in BOOLEAN : UpdateRest(sw)
  \/ \E cc \in InjectCCs, value \in InjectValues : UpdateParameterValue(cc, value)

SpecWide == InitWide /\ [][NextWide]_vars

----------------------------------------------------------------------------
(* The encoder and the debouncer under chosen times. The device has run for
   one period of the millisecond clock: the clock reads `now` milliseconds
   after its wrap, the latest detent was emitted e milliseconds ago and the
   latest button transition was committed g milliseconds ago, before or after
   the wrap. *)

NowCases == {5, 2000}
ElapsedCases == {10, 14, 15, 29, 30, 1000}
ButtonAges == {100, 101}

\* the uint32_t that millis() reads n milliseconds after the wrap (n < 0: before)
AtMs(n) == IF n < 0 THEN U32(Pow16 - 1, Pow16 + n) ELSE U32(0, n)

\* the next code of the Gray cycle 00 -> 01 -> 11 -> 10 -> 00
GrayNext(code) == CASE code = 0 -> 1 [] code = 1 -> 3 [] code = 3 -> 2 [] OTHER -> 0

\* the quarter step from code p to code c: +1 along the cycle, -1 against it
Quarter(p, c) == IF c = GrayNext(p) THEN 1 ELSE IF p = GrayNext(c) THEN -1 ELSE 0

(* handleEncoderInterrupt, observed: the code it started from, the rawDelta
   it looked up, and the streak of valid same-direction quarter steps *)
TrackedInterrupt(a, b) ==
  LET q == Quarter(lastEncoderState, a * 2 + b)
      emitted == IF nAdds' > nAdds THEN 1 ELSE 0
      goesOn == /\ track.streak # 0
                /\ Abs(track.streak) < 4
                /\ q * track.streak > 0
  IN  /\ InterruptStep(a, b)
      /\ track' = [track EXCEPT
            !.fired = TRUE,
            !.prevCode = lastEncoderState,
            !.quarter = RawDelta(lastEncoderState, a * 2 + b),
            !.streak = IF q = 0 THEN 0
                       ELSE IF goesOn THEN track.streak + q
                       ELSE IF stepAccumulator = 0 THEN q
                       ELSE 0,
            !.streakAdds = IF q = 0 THEN 0
                           ELSE IF goesOn THEN track.streakAdds + emitted
                           ELSE IF stepAccumulator = 0 THEN emitted
                           ELSE 0]

InitEnc ==
  \E now \in NowCases, e \in ElapsedCases, g \in ButtonAges, held \in BOOLEAN :
    /\ attached = TRUE
    /\ begun = TRUE
    /\ clock = AtMs(now)
    /\ state = IF held THEN UI_EDIT ELSE UI_MENU
    /\ currentParamIndex = 0
    /\ parameters = [i \in Indices |-> ParameterTable[i + 1]]
    /\ lastButtonState = IF held THEN LOW ELSE HIGH
    /\ lastButtonTime = AtMs(now - g)
    /\ parameterCallback = FALSE
    /\ lastEncoderState = 0
    /\ lastEncoderTime = AtMs(now - e)
    /\ encoderDelta = 0
    /\ stepAccumulator = 0
    /\ inUpdate = FALSE
    /\ delta = 0
    /\ polled = FALSE
    /\ drained = 0
    /\ ret = FALSE
    /\ pressed = FALSE
    /\ rawSeen = HIGH
    /\ cbLog = << >>
    /\ pressOdd = held
    /\ nAdds = 0
    /\ owed = 0
    /\ sinceDrain = 0
    /\ track = Track0

NextEnc ==
  \/ \E a \in 0 .. 1, b \in 0 .. 1 : TrackedInterrupt(a, b)
  \/ UpdateDrain
  \/ \E sw \in BOOLEAN : UpdateRest(sw)

SpecEnc == InitEnc /\ [][NextEnc]_vars

(* The button alone: update() with its committed transitions and press events
   observed, from construction. *)
TrackedRest(sw) ==
  LET commit == lastButtonState' # lastButtonState
  IN  /\ UpdateRestStep(sw)
      /\ track' = [track EXCEPT
            !.hadCommit = @ \/ commit,
            !.commitAt = IF commit THEN clock.lo ELSE @,
            !.hadPress = @ \/ pressed',
            !.pressAt = IF pressed' THEN clock.lo ELSE @,
            !.releases = IF pressed' THEN 0
                         ELSE IF commit THEN @ + 1
                         ELSE @]

NextButton ==
  \/ \E a \in RestLevels : BeginEncoder(a, a)
  \/ \E sw \in BOOLEAN : BeginButton(sw)
  \/ \E d \in TickSteps : Tick(d)
  \/ UpdateDrain
  \/ \E sw \in BOOLEAN : TrackedRest(sw)

SpecButton == Init /\ [][NextButton]_vars

(* The store read back: getParameter() among the operations that write the
   mode, the selection and the values, from the states of InitEnc that are
   clear of the wrap. *)
GetIndices == {0, 1, 10, 21, 22, 23, 255}

InitRead ==
  /\ InitEnc
  /\ clock = AtMs(2000)
  /\ lastEncoderTime = AtMs(1000)
  /\ lastButtonTime = AtMs(1899)

NextRead ==
  \/ \E a \in 0 .. 1, b \in 0 .. 1 : HandleEncoderInterrupt(a, b)
  \/ UpdateDrain
  \/ \E sw \in BOOLEAN : UpdateRest(sw)
  \/ \E cc \in InjectCCs, value \in InjectValues : UpdateParameterValue(cc, value)
  \/ \E index \in GetIndices : GetParameter(index)

SpecRead == InitRead /\ [][NextRead]_vars

----------------------------------------------------------------------------
(* Vocabulary of the properties *)

\* the step in which update() applies what it drained and returns
Poll == \E sw \in BOOLEAN : UpdateRestStep(sw)

\* the mathematical clamp of x to [lo, hi]
Clamp(x, lo, hi) == IF x < lo THEN lo ELSE IF x > hi THEN hi ELSE x

\* the parameter update() edits
Selected == parameters[currentParamIndex]

\* milliseconds from stamp to the clock, as integers (no wraparound in between)
TimeSince(stamp) == (clock.hi - stamp.hi) * Pow16 + (clock.lo - stamp.lo)

----------------------------------------------------------------------------
(* C1: every parameter's value lies within its bounds, minVal <= value <=
   maxVal, in every reachable state. *)
ParameterBounds ==
  \A i \in Indices :
    /\ parameters[i].minVal <= parameters[i].value
    /\ parameters[i].value <= parameters[i].maxVal

(* C2: the drain is exact. What the drains returned so far plus what is
   pending equals what the interrupt handler added so far, and what is pending
   is exactly what was added since the latest drain (0 right after a drain).
   owed and sinceDrain count the sums as integers; encoderDelta is the
   int16_t the handler adds into. *)
DrainExact ==
  /\ owed = encoderDelta
  /\ encoderDelta = sinceDrain

(* C3: in Menu mode a non-zero drained delta moves the selection to
   (selectedIndex + delta) mod count. *)
MenuMoveIsModular ==
  [][(Poll /\ state = UI_MENU /\ drained' # 0)
       => currentParamIndex' = (currentParamIndex + drained') % paramCount]_vars

(* C4: the state machine starts in Menu with selectedIndex 0, and
   selectedIndex stays within 0 .. count-1. *)
IndexInRange ==
  /\ currentParamIndex \in Indices
  /\ ~begun => (state = UI_MENU /\ currentParamIndex = 0)

\* a multi-detent movement below index 0 has wrapped to the last index
IndexInRangeWitness ==
  /\ polled
  /\ state = UI_MENU
  /\ drained = -4
  /\ currentParamIndex = paramCount - 1

(* C5: in Edit mode a non-zero drained delta, anywhere in the int16_t range,
   leaves the selected value at clamp(value + delta, minVal, maxVal) with the
   exact integer sum. *)
EditClampsExactSum ==
  [][(Poll /\ state = UI_EDIT /\ drained' # 0)
       => parameters'[currentParamIndex].value
            = Clamp(Selected.value + drained', Selected.minVal, Selected.maxVal)]_vars

(* C6: with a callback registered, update() invokes it exactly when it is in
   Edit mode and the clamped new value differs from the previous one, and
   then once, with the parameter's cc and the clamped value. *)
CallbackIffValueChanged ==
  [][(Poll /\ parameterCallback)
       => LET newValue == Clamp(Selected.value + drained', Selected.minVal,
                                Selected.maxVal)
          IN  cbLog' = IF state = UI_EDIT /\ newValue # Selected.value
                       THEN << <<Selected.cc, newValue>> >>
                       ELSE << >>]_vars

(* C7: update() returns true exactly when the drained delta is non-zero in
   Menu mode, or it changed the selected value in Edit mode, or a press event
   was emitted. *)
RedrawIffMarked ==
  [][Poll
       => ret' = (\/ state = UI_MENU /\ drained' # 0
                  \/ /\ state = UI_EDIT
                     /\ parameters'[currentParamIndex].value # Selected.value
                  \/ pressed')]_vars

(* C8: updateParameterValue(cc, value) invokes no callback, leaves mode,
   selectedIndex and pendingDelta unchanged, and changes at most the value of
   the first parameter whose cc matches. *)
InjectionFrame ==
  [][\A cc \in InjectCCs, value \in InjectValues :
       UpdateParameterValue(cc, value)
         => /\ cbLog' = << >>
            /\ state' = state
            /\ currentParamIndex' = currentParamIndex
            /\ encoderDelta' = encoderDelta
            /\ \A i \in Indices :
                 parameters'[i] # parameters[i]
                   => /\ parameters[i].cc = cc
                      /\ \A j \in 0 .. (i - 1) : parameters[j].cc # cc
                      /\ parameters'[i] = [parameters[i] EXCEPT !.value = value]]_vars

\* a value has just been injected, in Edit mode with a callback registered,
\* and no callback was made
InjectionFrameWitness ==
  /\ parameterCallback
  /\ state = UI_EDIT
  /\ ~polled
  /\ parameters[10].value = 5
  /\ cbLog = << >>

(* C9: every press event flips the mode and nothing else does: the mode is
   Edit exactly when the number of press events so far is odd. *)
ModeFollowsPresses == (state = UI_EDIT) <=> pressOdd

\* the second press event has just taken the mode back to Menu
ModeFollowsPressesWitness ==
  /\ polled
  /\ pressed
  /\ ~pressOdd
  /\ state = UI_MENU

(* C10: the debouncer. A press event is emitted exactly in a poll that reads
   the line pressed while the stable level is released and more than 100 ms
   passed since the latest committed transition, and it commits the press; a
   poll within 100 ms of the latest committed transition emits nothing and
   leaves the debounce state alone; a poll with the stable level pressed
   (a held button, a release being committed) emits nothing, and the stable
   level stays pressed as long as polls read the line pressed: one event per
   press, however many polls see it held. *)
DebounceRule ==
  [][\A sw \in BOOLEAN :
       UpdateRestStep(sw)
         => LET elapsed == TimeSince(lastButtonTime)
            IN  /\ pressed' = (sw = LOW /\ lastButtonState = HIGH /\ elapsed > 100)
                /\ pressed' => (lastButtonState' = LOW /\ lastButtonTime' = clock)
                /\ elapsed <= 100
                     => /\ ~pressed'
                        /\ lastButtonState' = lastButtonState
                        /\ lastButtonTime' = lastButtonTime
                /\ lastButtonState = LOW => ~pressed'
                /\ (sw = LOW /\ lastButtonState = LOW) => lastButtonState' = LOW]_vars

\* after its press event the button was polled again, still held and past the
\* debounce window, and no second event came
DebounceRuleWitness ==
  /\ polled
  /\ ret = FALSE
  /\ rawSeen = LOW
  /\ lastButtonState = LOW
  /\ pressOdd
  /\ TimeSince(lastButtonTime) > 100

----------------------------------------------------------------------------
\* the uint32_t t as milliseconds from the wrap of the clock, negative before it
SignedMs(t) ==
  IF t.hi >= Pow16 \div 2 THEN (t.hi - Pow16) * Pow16 + t.lo ELSE t.hi * Pow16 + t.lo

\* the true time from stamp to the clock's reading, less than half a period
ElapsedMs(stamp) == SignedMs(clock) - SignedMs(stamp)

\* the handler has run and no update() has returned since
HandlerRan == track.fired /\ ~polled

(* C11: the quadrature decoder. For each of the 16 pairs of previous and
   current code the handler looks up +1 for 00->01, 01->11, 10->00, 11->10,
   -1 for 00->10, 01->00, 10->11, 11->01, and 0 for an unchanged code and for
   a non-adjacent one (00<->11, 01<->10). *)
DecoderTable ==
  track.fired => track.quarter = Quarter(track.prevCode, lastEncoderState)

DecoderTableWitness ==
  /\ HandlerRan
  /\ track.prevCode = 3
  /\ lastEncoderState = 2
  /\ track.quarter = 1

\* an execution of the handler, as a step
HandlerStep(a, b) == TrackedInterrupt(a, b)

\* the multiplier the bands give for an elapsed time e
BandMultiplier(e) == IF e < 15 THEN 4 ELSE IF e < 30 THEN 2 ELSE 1

(* C12: a detent is emitted exactly in the handler execution in which the
   accumulator's absolute value reaches 2. That execution emits one detent
   in the direction of the accumulator's sign, resets the accumulator to 0,
   adds exactly direction * multiplier to encoderDelta and stamps the detent
   time; every other execution adds nothing to encoderDelta and leaves the
   detent timestamp alone. *)
DetentAtThreshold ==
  [][\A a \in 0 .. 1, b \in 0 .. 1 :
       HandlerStep(a, b) =>
         LET acc == stepAccumulator + Quarter(lastEncoderState, a * 2 + b)
             dir == IF acc > 0 THEN 1 ELSE -1
         IN  IF Abs(acc) >= 2
             THEN /\ nAdds' = nAdds + 1
                  /\ stepAccumulator' = 0
                  /\ encoderDelta' - encoderDelta \in {dir, dir * 2, dir * 4}
                  /\ encoderDelta' - encoderDelta =
                       dir * BandMultiplier(ElapsedMs(lastEncoderTime))
                  /\ lastEncoderTime' = clock
             ELSE /\ nAdds' = nAdds
                  /\ stepAccumulator' = acc
                  /\ encoderDelta' = encoderDelta
                  /\ lastEncoderTime' = lastEncoderTime]_vars

DetentAtThresholdWitness ==
  /\ HandlerRan
  /\ nAdds = 1
  /\ stepAccumulator = 0
  /\ encoderDelta = -2
  /\ lastEncoderTime = clock

(* C13: the multiplier depends on the time elapsed since the previous
   detent only: 4 below 15 ms, 2 from 15 ms to below 30 ms, 1 from 30 ms on
   (14 -> 4, 15 -> 2, 29 -> 2, 30 -> 1, 1000 -> 1), so that every amount
   added to encoderDelta is one of +-1, +-2, +-4. *)
AccelerationBands ==
  [][\A a \in 0 .. 1, b \in 0 .. 1 :
       (HandlerStep(a, b) /\ nAdds' > nAdds) =>
         LET amount == owed' - owed
             elapsed == ElapsedMs(lastEncoderTime)
         IN  /\ calculateAcceleration(AtMs(14)) = 4
             /\ calculateAcceleration(AtMs(15)) = 2
             /\ calculateAcceleration(AtMs(29)) = 2
             /\ calculateAcceleration(AtMs(30)) = 1
             /\ calculateAcceleration(AtMs(1000)) = 1
             /\ elapsed < 15 => Abs(amount) = 4
             /\ (15 <= elapsed /\ elapsed < 30) => Abs(amount) = 2
             /\ elapsed >= 30 => Abs(amount) = 1
             /\ amount \in {-4, -2, -1, 1, 2, 4}]_vars

AccelerationBandsWitness ==
  /\ HandlerRan
  /\ nAdds = 1
  /\ encoderDelta = 2
  /\ sinceDrain = 2

(* C14: getParameter(index) returns the parameter at index when index is
   below the parameter count and parameter 0 for every other 8-bit index; it
   never fails and never modifies the store, the mode or the selection. *)
ReadWithFallback ==
  [][\A index \in GetIndices :
       GetParameter(index) =>
         /\ index < paramCount => track'.got = << index, parameters[index] >>
         /\ index >= paramCount => track'.got = << index, parameters[0] >>
         /\ UNCHANGED << parameters, state, currentParamIndex >>]_vars

ReadWithFallbackWitness ==
  /\ state = UI_EDIT
  /\ parameters[0].value # 76
  /\ track.got = << 255, parameters[0] >>

(* C15: one detent per mechanical detent. As the code has it: every two
   consecutive valid quarter steps in one direction, counted from a zeroed
   accumulator, emit exactly one detent, so the four steps of a full Gray
   cycle (00 -> 01 -> 11 -> 10 -> 00) emit exactly two. *)
DetentPerTwoSteps ==
  track.streakAdds = Abs(track.streak) \div 2

DetentPerTwoStepsWitness ==
  /\ HandlerRan
  /\ track.streak = 4
  /\ track.streakAdds = 2
  /\ track.prevCode = 2
  /\ lastEncoderState = 0
  /\ nAdds = 2

\* C15 as stated: the four quarter steps of a full cycle emit exactly one detent
DetentPerFullCycle ==
  Abs(track.streak) = 4 => track.streakAdds = 1

\* every parameter but the selected one is left as it was
OthersKept == \A i \in Indices \ {currentParamIndex} : parameters'[i] = parameters[i]

(* C16: a poll that drains a non-zero delta and emits a press event handles
   both in that one update(): the movement first, in the mode held when the
   poll started (Menu: the selection moves and no value changes; Edit: the
   selected value is edited and the selection stays), and the toggle after
   it. The delta is never applied in the toggled mode and nothing of it is
   left for a later poll. *)
MoveThenToggle ==
  [][\A sw \in BOOLEAN :
       (UpdateRestStep(sw) /\ drained' # 0 /\ pressed') =>
         /\ drained' = delta
         /\ encoderDelta' = sinceDrain'
         /\ state' = Toggle(state)
         /\ state = UI_MENU =>
              /\ parameters' = parameters
              /\ cbLog' = << >>
              /\ \/ currentParamIndex' # currentParamIndex
                 \/ Abs(drained') >= paramCount
         /\ state = UI_EDIT =>
              /\ currentParamIndex' = currentParamIndex
              /\ OthersKept
              /\ \/ parameters'[currentParamIndex].value # Selected.value
                 \/ Clamp(Selected.value + drained', Selected.minVal,
                          Selected.maxVal) = Selected.value]_vars

MoveThenToggleWitness ==
  /\ polled
  /\ pressed
  /\ drained = 4
  /\ state = UI_EDIT
  /\ currentParamIndex = 4
  /\ parameters[4].value = ParameterTable[5].value

(* C19: what a poll leaves alone. A poll that starts in Menu changes no
   parameter value and invokes no callback; a poll that starts in Edit does
   not change the selection and changes no parameter but the selected one; a
   poll that drains 0 changes neither the selection nor any value. *)
PollFrame ==
  [][\A sw \in BOOLEAN :
       UpdateRestStep(sw) =>
         /\ state = UI_MENU => (parameters' = parameters /\ cbLog' = << >>)
         /\ state = UI_EDIT =>
              (currentParamIndex' = currentParamIndex /\ OthersKept)
         /\ drained' = 0 =>
              (currentParamIndex' = currentParamIndex /\ parameters' = parameters)
      ]_vars

PollFrameWitness ==
  /\ polled
  /\ ~pressed
  /\ drained # 0
  /\ state = UI_EDIT
  /\ currentParamIndex # 0
  /\ Selected.value # ParameterTable[currentParamIndex + 1].value
  /\ cbLog # << >>

\* the clock wrapped once between stamp and now
WrappedSince(stamp) == SignedMs(stamp) < 0 /\ SignedMs(clock) >= 0

(* C17: elapsed times are taken modulo 2^32. When the millisecond clock
   wrapped once since the previous detent, the multiplier of the next detent
   is the one of the true elapsed time (last = 2^32 - 5, now = 5: elapsed 10,
   multiplier 4); when it wrapped once since the latest committed button
   transition, a differing raw level is committed exactly when the true
   elapsed time exceeds 100. *)
WrapSafeElapsed ==
  [][/\ \A a \in 0 .. 1, b \in 0 .. 1 :
          (HandlerStep(a, b) /\ nAdds' > nAdds /\ WrappedSince(lastEncoderTime)) =>
            /\ Abs(owed' - owed) = BandMultiplier(ElapsedMs(lastEncoderTime))
            /\ (lastEncoderTime = AtMs(-5) /\ clock = AtMs(5)) => Abs(owed' - owed) = 4
     /\ \A sw \in BOOLEAN :
          (UpdateRestStep(sw) /\ WrappedSince(lastButtonTime)) =>
            (lastButtonState' # lastButtonState <=>
               (sw # lastButtonState /\ ElapsedMs(lastButtonTime) > 100))
    ]_vars

WrapSafeElapsedWitness ==
  /\ polled
  /\ clock = AtMs(5)
  /\ nAdds = 1
  /\ lastEncoderTime = clock
  /\ drained = 2
  /\ rawSeen = LOW
  /\ lastButtonState = HIGH
  /\ lastButtonTime = AtMs(-95)

(* C18: a handler execution that reads an unchanged code or a non-adjacent
   one (both bits changed) is a zero step: it leaves the accumulator,
   encoderDelta and the detent timestamp as they were and emits no detent;
   all it does is set lastEncoderState to the code read. *)
ZeroStep ==
  [][\A a \in 0 .. 1, b \in 0 .. 1 :
       (HandlerStep(a, b) /\ Quarter(lastEncoderState, a * 2 + b) = 0) =>
         /\ lastEncoderState' = a * 2 + b
         /\ nAdds' = nAdds
         /\ UNCHANGED << stepAccumulator, encoderDelta, lastEncoderTime, uiVars,
                         clock, begun, parameterCallback >>]_vars

ZeroStepWitness ==
  /\ HandlerRan
  /\ track.prevCode = 1
  /\ lastEncoderState = 2
  /\ stepAccumulator = 1
  /\ nAdds = 0
  /\ lastEncoderTime # clock

(* C20: presses are spaced. Between two press events there is exactly one
   committed release, and two consecutive committed transitions are more than
   100 ms apart; so, the clock not wrapping, two press events, and with them
   two mode toggles, are more than 200 ms apart. *)
PressSpacing ==
  [][\A sw \in BOOLEAN :
       UpdateRestStep(sw) =>
         /\ (lastButtonState' # lastButtonState /\ track.hadCommit) =>
              clock.lo - track.commitAt > 100
         /\ (pressed' /\ track.hadPress) =>
              /\ track.releases = 1
              /\ clock.lo - track.pressAt > 200
         /\ state' # state => pressed'
      ]_vars

PressSpacingWitness ==
  /\ polled
  /\ pressed
  /\ ~pressOdd
  /\ state = UI_MENU
  /\ track.hadPress
  /\ track.pressAt = clock.lo
  /\ track.releases = 0

====
